---- MODULE Spec2Model ----
(***************************************************************************)
(* wslgit: a shim that forwards a git invocation from Windows to the git   *)
(* inside WSL (src/src/main.rs).                                           *)
(*                                                                         *)
(* Text is modelled character by character: a Rust String is a sequence of *)
(* one-character strings, a byte buffer a sequence of one-byte tokens.     *)
(* "U+00C9" stands for the two-byte character E-acute and "xFF" for the    *)
(* byte 0xFF, which is no valid UTF-8.                                     *)
(***************************************************************************)
EXTENDS Integers, Sequences, FiniteSets, TLC

VARIABLES
    pc,                 \* position of main()
    args,               \* env::args().skip(1)
    bash_env,           \* env::var("BASH_ENV")
    wslenv,             \* env::var("WSLENV")
    interactive_shell,
    git_args,
    git_cmd,
    cmd_args,
    launch,             \* what Command::new("wsl") was spawned with
    childOut,           \* output.stdout
    status,             \* output.status.code()
    policy,             \* which branch of the test on line 134 was taken
    result,             \* the buffer replace_all returned
    hostOut,            \* bytes handed to the host's stdout
    flushed,
    exitCode,           \* the exit status of the shim
    trace,              \* the events of the run, in order
    arg,                \* unit specification of translate_path_to_unix
    unix,
    buf,                \* unit specification of the output rewriting
    win

vars == <<pc, args, bash_env, wslenv, interactive_shell, git_args, git_cmd,
          cmd_args, launch, childOut, status, policy, result, hostOut,
          flushed, exitCode, trace, arg, unix, buf, win>>

mainVars == <<pc, args, bash_env, wslenv, interactive_shell, git_args,
              git_cmd, cmd_args, launch, childOut, status, policy, result,
              hostOut, flushed, exitCode, trace>>

unitVars == <<arg, unix, buf, win>>

\* Option / Result: None (or Err) is the empty sequence, Some(x) (or Ok) holds x
None == <<>>

Some(x) == <<x>>

unwrap(o) == o[1]

(***************************************************************************)
(* Bounds                                                                  *)
(***************************************************************************)
MaxArgs == 2        \* invoker arguments in a run of main
MaxArgLen == 4      \* characters of an argument given to translate_path_to_unix
MaxFrags == 5       \* fragments a child output buffer is assembled from

(***************************************************************************)
(* Characters and strings                                                  *)
(***************************************************************************)
UpperAZ == <<"A","B","C","D","E","F","G","H","I","J","K","L","M",
             "N","O","P","Q","R","S","T","U","V","W","X","Y","Z">>

LowerAZ == <<"a","b","c","d","e","f","g","h","i","j","k","l","m",
             "n","o","p","q","r","s","t","u","v","w","x","y","z">>

IsAsciiUpper(c) == \E i \in 1..26 : UpperAZ[i] = c

IsAsciiLower(c) == \E i \in 1..26 : LowerAZ[i] = c

IsAsciiLetter(c) == IsAsciiUpper(c) \/ IsAsciiLower(c)

\* u8::to_ascii_lowercase / the per-character step of eq_ignore_ascii_case
to_ascii_lowercase(c) ==
    IF IsAsciiUpper(c) THEN LowerAZ[CHOOSE i \in 1..26 : UpperAZ[i] = c] ELSE c

\* u8::to_ascii_uppercase
to_ascii_uppercase(c) ==
    IF IsAsciiLower(c) THEN UpperAZ[CHOOSE i \in 1..26 : LowerAZ[i] = c] ELSE c

\* char::to_lowercase: Unicode lowercasing, of which the model knows the ASCII
\* letters and E-acute
to_lowercase(c) ==
    IF c = "U+00C9" THEN "U+00E9" ELSE to_ascii_lowercase(c)

\* the number of bytes of a character in UTF-8
len_utf8(c) == IF c \in {"U+00C9", "U+00E9"} THEN 2 ELSE 1

RECURSIVE ByteLen(_)
ByteLen(s) == IF s = <<>> THEN 0 ELSE len_utf8(Head(s)) + ByteLen(Tail(s))

\* str::find: the byte index of the first occurrence of pat, or None
find(s, pat) ==
    LET hits == {i \in 1..(Len(s) - Len(pat) + 1) :
                    SubSeq(s, i, i + Len(pat) - 1) = pat}
    IN IF hits = {} THEN None
       ELSE LET first == CHOOSE i \in hits : \A j \in hits : i <= j
            IN Some(ByteLen(SubSeq(s, 1, first - 1)))

\* str::contains
contains(s, pat) == find(s, pat) # None

\* str::ends_with
ends_with(s, suffix) ==
    /\ Len(suffix) <= Len(s)
    /\ SubSeq(s, Len(s) - Len(suffix) + 1, Len(s)) = suffix

\* [String]::join
RECURSIVE join(_, _)
join(strs, sep) ==
    IF strs = <<>> THEN <<>>
    ELSE IF Len(strs) = 1 THEN strs[1]
    ELSE strs[1] \o sep \o join(Tail(strs), sep)

\* str::split on one character: "" gives one empty segment
RECURSIVE split(_, _)
split(s, sep) ==
    LET hits == {i \in 1..Len(s) : s[i] = sep}
    IN IF hits = {} THEN <<s>>
       ELSE LET first == CHOOSE i \in hits : \A j \in hits : i <= j
            IN <<SubSeq(s, 1, first - 1)>>
                 \o split(SubSeq(s, first + 1, Len(s)), sep)

\* str::eq_ignore_ascii_case
eq_ignore_ascii_case(a, b) ==
    /\ Len(a) = Len(b)
    /\ \A i \in 1..Len(a) : to_ascii_lowercase(a[i]) = to_ascii_lowercase(b[i])

\* every sequence over S of at most n elements
SeqsUpTo(S, n) == UNION {[1..k -> S] : k \in 0..n}

(***************************************************************************)
(* String literals of the program                                          *)
(***************************************************************************)
GitLit == <<"g","i","t">>
BashLit == <<"b","a","s","h">>
DashIcLit == <<"-","i","c">>
MntLit == <<"/","m","n","t","/">>
ColonBackslash == <<":","\\">>
VersionLit == <<"-","-","v","e","r","s","i","o","n">>
ShowLit == <<"s","h","o","w">>
BashEnvLit == <<"B","A","S","H","_","E","N","V">>
Space == <<" ">>
Quote == <<"\"">>

NO_TRANSLATE == {ShowLit}

(***************************************************************************)
(* translate_path_to_unix                                                  *)
(***************************************************************************)
\* the closure of the map on lines 22-27
BackslashToSlash(c) == IF c = "\\" THEN "/" ELSE c

translate_path_to_unix_no_lowercase(a) ==
    IF find(a, ColonBackslash) = Some(1)
    THEN MntLit \o <<Head(a)>>
           \o [i \in 1..(Len(a) - 2) |-> BackslashToSlash(a[i + 2])]
    ELSE a

translate_path_to_unix_any_index(a) ==
    IF find(a, ColonBackslash) # None /\ Len(a) >= 2
    THEN MntLit \o <<to_lowercase(Head(a))>>
           \o [i \in 1..(Len(a) - 2) |-> BackslashToSlash(a[i + 2])]
    ELSE a

translate_path_to_unix(a) ==
    LET index == find(a, ColonBackslash)
    IN IF index = None THEN a
       ELSE IF unwrap(index) # 1 THEN a
       ELSE \* path_chars.next() is the drive, the next one is skipped
            LET drive == Head(a)
                rest == Tail(Tail(a))
            IN MntLit \o <<to_lowercase(drive)>>
                 \o [i \in 1..Len(rest) |-> BackslashToSlash(rest[i])]

(***************************************************************************)
(* Unit specification of translate_path_to_unix: every argument of at most *)
(* MaxArgLen characters over ArgAlphabet.                                  *)
(***************************************************************************)
ArgAlphabet == {"C", "d", ":", "\\", "/", "1", "U+00C9"}

Idle ==
    /\ pc = "unit"
    /\ args = <<>>
    /\ bash_env = None
    /\ wslenv = None
    /\ interactive_shell = TRUE
    /\ git_args = <<>>
    /\ git_cmd = <<>>
    /\ cmd_args = <<>>
    /\ launch = None
    /\ childOut = <<>>
    /\ status = None
    /\ policy = "undecided"
    /\ result = <<>>
    /\ hostOut = <<>>
    /\ flushed = FALSE
    /\ exitCode = None
    /\ trace = <<>>

InitIn ==
    /\ Idle
    /\ arg \in SeqsUpTo(ArgAlphabet, MaxArgLen)
    /\ unix = None
    /\ buf = <<>>
    /\ win = None

TranslateArg ==
    /\ unix = None
    /\ unix' = Some(translate_path_to_unix(arg))
    /\ UNCHANGED <<mainVars, arg, buf, win>>

NextIn == TranslateArg

SpecIn == InitIn /\ [][NextIn]_vars


(***************************************************************************)
(* The drive-letter prefix the specification speaks of: an ASCII letter,   *)
(* ':' and a separator out of seps.                                        *)
(***************************************************************************)
HasDrivePrefix(s, seps) ==
    /\ Len(s) >= 3
    /\ IsAsciiLetter(s[1])
    /\ s[2] = ":"
    /\ s[3] \in seps

\* "/mnt/" + the lowercased drive letter + the rest from the third character
\* on with every '\' replaced by '/'
DrivePathInWsl(s) ==
    MntLit \o <<to_ascii_lowercase(s[1])>>
      \o [i \in 1..(Len(s) - 2) |-> IF s[i + 2] = "\\" THEN "/" ELSE s[i + 2]]

\* C2 as claimed: an argument starting with a letter, ':' and '\' or '/' is
\* translated to its /mnt/<letter>/ form.
C2_SlashOrBackslash ==
    (unix # None /\ HasDrivePrefix(arg, {"\\", "/"}))
        => unwrap(unix) = DrivePathInWsl(arg)

\* C2 amended: an argument starting with a letter, ':' and '\' is translated
\* to "/mnt/" + the lowercased letter + the rest with every '\' replaced by
\* '/'; one starting with a letter, ':' and '/' is returned unchanged.
C2_BackslashOnly ==
    /\ (unix # None /\ HasDrivePrefix(arg, {"\\"}))
          => unwrap(unix) = DrivePathInWsl(arg)
    /\ (unix # None /\ HasDrivePrefix(arg, {"/"}))
          => unwrap(unix) = arg

C2_Witness ==
    /\ arg = <<"C", ":", "\\", "d">>
    /\ unix = Some(<<"/", "m", "n", "t", "/", "c", "/", "d">>)

\* one ASCII character, whatever it is, followed by ":\"
HasByteColonBackslash(s) ==
    /\ Len(s) >= 3
    /\ len_utf8(s[1]) = 1
    /\ s[2] = ":"
    /\ s[3] = "\\"

\* C3 as claimed: an argument that does not start with a letter, ':' and '\'
\* or '/' is returned unchanged.
C3_IdentityOffDrivePrefix ==
    (unix # None /\ ~HasDrivePrefix(arg, {"\\", "/"}))
        => unwrap(unix) = arg

\* C3 amended: an argument that does not start with one ASCII character (a
\* letter or not) followed by ":\" is returned unchanged, and every other
\* argument is changed.
C3_IdentityOffColonBackslash ==
    unix # None => (unwrap(unix) = arg <=> ~HasByteColonBackslash(arg))

C3_Witness ==
    /\ arg = <<"\\", "\\", "d">>
    /\ unix = Some(arg)

\* a digit followed by ":\" is rewritten like a drive
C3_DigitWitness ==
    /\ arg = <<"1", ":", "\\">>
    /\ unix = Some(<<"/", "m", "n", "t", "/", "1", "/">>)


(***************************************************************************)
(* The rewriting of the child's output, lines 136-150:                     *)
(* the multi-line, byte-level regular expression re_lines and replace_all   *)
(* with the closure that builds the DOS path.                              *)
(***************************************************************************)
\* (?m)^ : the start of the buffer or the position after a '\n'
AtLineStart(b, i) == i = 1 \/ b[i - 1] = "\n"

\* /mnt/([A-Za-z])/ at position i
PrefixAt(b, i) ==
    /\ i + 6 <= Len(b)
    /\ SubSeq(b, i, i + 4) = MntLit
    /\ IsAsciiLetter(b[i + 5])
    /\ b[i + 6] = "/"

\* where the greedy .* followed by (?m)$ ends: the last byte before the next
\* '\n', or the last byte of the buffer
LineEnd(b, i) ==
    LET nls == {j \in i..Len(b) : b[j] = "\n"}
    IN IF nls = {} THEN Len(b)
       ELSE (CHOOSE j \in nls : \A k \in nls : j <= k) - 1

\* the closure of lines 137-150 on a match at i that ends at e: caps[1] is the
\* byte at i + 5, caps[2] the bytes from i + 6 to e
new_path(b, i, e) ==
    <<to_ascii_uppercase(b[i + 5]), ":">> \o SubSeq(b, i + 6, e)

\* the unanchored pattern: a match anywhere in a line
RECURSIVE replace_from_unanchored(_, _)
replace_from_unanchored(b, i) ==
    IF i > Len(b) THEN <<>>
    ELSE IF PrefixAt(b, i)
         THEN new_path(b, i, LineEnd(b, i))
                \o replace_from_unanchored(b, LineEnd(b, i) + 1)
         ELSE <<b[i]>> \o replace_from_unanchored(b, i + 1)

replace_all_unanchored(b) == replace_from_unanchored(b, 1)

\* replace_all from position i on: the bytes outside the matches are copied
RECURSIVE replace_from(_, _)
replace_from(b, i) ==
    IF i > Len(b) THEN <<>>
    ELSE IF AtLineStart(b, i) /\ PrefixAt(b, i)
         THEN new_path(b, i, LineEnd(b, i)) \o replace_from(b, LineEnd(b, i) + 1)
         ELSE <<b[i]>> \o replace_from(b, i + 1)

replace_all(b) == replace_from(b, 1)

(***************************************************************************)
(* Unit specification of the output rewriting: every buffer that is the    *)
(* concatenation of at most MaxFrags fragments.                            *)
(***************************************************************************)
Frags == {MntLit, <<"/">>, <<"c">>, <<"D">>, <<"\n">>, <<"xFF">>}

RECURSIVE Flatten(_)
Flatten(ss) == IF ss = <<>> THEN <<>> ELSE Head(ss) \o Flatten(Tail(ss))

Buffers == {Flatten(fs) : fs \in SeqsUpTo(Frags, MaxFrags)}

InitOut ==
    /\ Idle
    /\ buf \in Buffers
    /\ win = None
    /\ arg = <<>>
    /\ unix = None

RewriteBuffer ==
    /\ win = None
    /\ win' = Some(replace_all(buf))
    /\ UNCHANGED <<mainVars, arg, unix, buf>>

NextOut == RewriteBuffer

SpecOut == InitOut /\ [][NextOut]_vars

(***************************************************************************)
(* The rewriting as the specification words it: line by line.              *)
(***************************************************************************)
\* the segments of b between '\n's
RECURSIVE LinesOf(_)
LinesOf(b) ==
    IF \A i \in 1..Len(b) : b[i] # "\n" THEN <<b>>
    ELSE LET n == CHOOSE i \in 1..Len(b) :
                    b[i] = "\n" /\ \A j \in 1..(i - 1) : b[j] # "\n"
         IN <<SubSeq(b, 1, n - 1)>> \o LinesOf(SubSeq(b, n + 1, Len(b)))

StartsWithMount(l) ==
    /\ Len(l) >= 7
    /\ SubSeq(l, 1, 5) = MntLit
    /\ IsAsciiLetter(l[6])
    /\ l[7] = "/"

\* the uppercased letter, ':', the rest of the line from the '/' on
LineInWindows(l) ==
    IF StartsWithMount(l)
    THEN <<to_ascii_uppercase(l[6]), ":">> \o SubSeq(l, 7, Len(l))
    ELSE l

RECURSIVE Unlines(_)
Unlines(ls) ==
    IF Len(ls) = 1 THEN ls[1] ELSE ls[1] \o <<"\n">> \o Unlines(Tail(ls))

\* C6: the rewriting changes exactly the lines that begin with /mnt/<letter>/,
\* each into <LETTER>: and the rest of the line from that '/' on; every other
\* line and every '\n' is copied.
C6_LinewiseRewrite ==
    win # None =>
        LET ls == LinesOf(buf)
        IN unwrap(win) = Unlines([k \in 1..Len(ls) |-> LineInWindows(ls[k])])

\* an untouched first line, a rewritten second line
C6_Witness ==
    /\ buf = <<"D", "\n", "/", "m", "n", "t", "/", "c", "/">>
    /\ win = Some(<<"D", "\n", "C", ":", "/">>)

\* a path in the middle of a line is left alone
C6_MidLineWitness ==
    /\ buf = <<"c", "/", "m", "n", "t", "/", "c", "/">>
    /\ win = Some(buf)


(***************************************************************************)
(* main                                                                    *)
(***************************************************************************)
PanicExit == 101    \* the exit status of a Rust process whose main panicked
MainReturn == 0     \* the exit status when main returns

\* lines 58-68
shell_escape(a) ==
    IF contains(a, Space) THEN join(<<Quote, a, Quote>>, <<>>) ELSE a

\* lines 76-82: env::var(..).is_ok() and the scan of WSLENV's segments
is_interactive_case_sensitive(be, we) ==
    ~(be # None /\ we # None
        /\ \E k \in DOMAIN split(unwrap(we), ":") :
              split(unwrap(we), ":")[k] = BashEnvLit)

is_interactive(be, we) ==
    IF be # None
    THEN IF we # None
            /\ \E k \in DOMAIN split(unwrap(we), ":") :
                  eq_ignore_ascii_case(split(unwrap(we), ":")[k], BashEnvLit)
         THEN FALSE
         ELSE TRUE
    ELSE TRUE

\* lines 85-99: git_args
git_args_of(as, interactive) ==
    <<GitLit>> \o
      [i \in 1..Len(as) |->
          IF interactive THEN shell_escape(translate_path_to_unix(as[i]))
          ELSE translate_path_to_unix(as[i])]

\* lines 89-98: cmd_args
cmd_args_of(gargs, interactive) ==
    IF interactive THEN <<BashLit, DashIcLit, join(gargs, Space)>> ELSE gargs

\* lines 102-114
stdin_mode_contains(cmd) ==
    IF contains(cmd, VersionLit) THEN "null" ELSE "inherit"

stdin_mode(cmd) ==
    IF ends_with(cmd, VersionLit) THEN "null" ELSE "inherit"

\* line 134
use_translate_needs_subcommand(gargs) ==
    Len(gargs) > 1 /\ gargs[2] \notin NO_TRANSLATE

\* || evaluates its right side only when the left side is false
use_translate(gargs) ==
    IF Len(gargs) = 1 THEN TRUE ELSE gargs[2] \notin NO_TRANSLATE

(***************************************************************************)
(* The inputs of a run                                                     *)
(***************************************************************************)
MainArgs ==
    { ShowLit,
      VersionLit,
      <<"l", "o", "g">>,
      <<"C", ":", "\\", "d">>,
      <<"C", ":", "\\", "a", " ", "b">>,
      <<"a", " ">> \o VersionLit }

BashEnvValues == {None, Some(<<"/", "x">>)}

WslEnvValues ==
    { None,
      Some(BashEnvLit),
      Some(<<"b","a","s","h","_","e","n","v">>),
      Some(<<"O","T","H","E","R">>),
      Some(<<"F", ":">> \o BashEnvLit \o <<":", "B">>),
      Some(BashEnvLit \o <<"/", "u">>) }

\* what the child may write to its stdout
ChildOuts ==
    { <<>>,
      <<"/", "m", "n", "t", "/", "c", "/", "\n">>,
      <<"c", "/", "m", "n", "t", "/", "D", "/">>,
      <<"xFF", "\n", "/", "m", "n", "t", "/", "D", "/", "c">> }

\* output.status.code()
ExitCodes == {0, 1, 128}

StrictPrefixes(b) == {SubSeq(b, 1, n) : n \in 0..(Len(b) - 1)}

Init ==
    /\ pc = "start"
    /\ args \in SeqsUpTo(MainArgs, MaxArgs)
    /\ bash_env \in BashEnvValues
    /\ wslenv \in WslEnvValues
    /\ interactive_shell = TRUE
    /\ git_args = <<GitLit>>
    /\ git_cmd = <<>>
    /\ cmd_args = <<>>
    /\ launch = None
    /\ childOut = <<>>
    /\ status = [exited |-> FALSE, code |-> None]
    /\ policy = "undecided"
    /\ result = <<>>
    /\ hostOut = <<>>
    /\ flushed = FALSE
    /\ exitCode = None
    /\ trace = <<>>
    /\ arg = <<>>
    /\ unix = None
    /\ buf = <<>>
    /\ win = None

\* a failed expect or unwrap: the process aborts
Panic ==
    /\ pc' = "panicked"
    /\ exitCode' = Some(PanicExit)
    /\ trace' = Append(trace, "panic")

\* lines 71-99
Assemble ==
    /\ pc = "start"
    /\ interactive_shell' = is_interactive(bash_env, wslenv)
    /\ git_args' = git_args_of(args, interactive_shell')
    /\ git_cmd' = join(git_args', Space)
    /\ cmd_args' = cmd_args_of(git_args', interactive_shell')
    /\ pc' = "assembled"
    /\ UNCHANGED <<args, bash_env, wslenv, launch, childOut, status, policy,
                   result, hostOut, flushed, exitCode, trace, unitVars>>

\* lines 101-122
Spawn ==
    /\ pc = "assembled"
    /\ \/ /\ launch' = Some([program |-> "wsl",
                              args |-> cmd_args,
                              stdin |-> stdin_mode(git_cmd),
                              stdout |-> "piped"])
          /\ pc' = "spawned"
          /\ trace' = Append(trace, "spawn")
          /\ UNCHANGED exitCode
       \/ /\ Panic
          /\ UNCHANGED launch
    /\ UNCHANGED <<args, bash_env, wslenv, interactive_shell, git_args, git_cmd,
                   cmd_args, childOut, status, policy, result, hostOut,
                   flushed, unitVars>>

\* lines 123-125: the child runs to its end, its stdout drained into the buffer
Wait ==
    /\ pc = "spawned"
    /\ \/ /\ childOut' \in ChildOuts
          /\ \E code \in {Some(c) : c \in ExitCodes} \cup {None} :
                status' = [exited |-> TRUE, code |-> code]
          /\ pc' = "waited"
          /\ trace' = Append(trace, "child_exit")
          /\ UNCHANGED exitCode
       \/ /\ Panic
          /\ UNCHANGED <<childOut, status>>
    /\ UNCHANGED <<args, bash_env, wslenv, interactive_shell, git_args, git_cmd,
                   cmd_args, launch, policy, result, hostOut, flushed,
                   unitVars>>

\* lines 134-150
Translate ==
    /\ pc = "waited"
    /\ use_translate(git_args)
    /\ policy' = "translate_output"
    /\ result' = replace_all(childOut)
    /\ pc' = "translated"
    /\ trace' = Append(trace, "translate")
    /\ UNCHANGED <<args, bash_env, wslenv, interactive_shell, git_args, git_cmd,
                   cmd_args, launch, childOut, status, hostOut, flushed,
                   exitCode, unitVars>>

\* line 151
WriteTranslated ==
    /\ pc = "translated"
    /\ \/ /\ hostOut' = result
          /\ pc' = "written"
          /\ trace' = Append(trace, "write")
          /\ UNCHANGED exitCode
       \/ /\ hostOut' \in StrictPrefixes(result)
          /\ Panic
    /\ UNCHANGED <<args, bash_env, wslenv, interactive_shell, git_args, git_cmd,
                   cmd_args, launch, childOut, status, policy, result, flushed,
                   unitVars>>

\* line 153
FlushNothing ==
    /\ pc \in {"written", "raw_written"}
    /\ pc' = "flushed"
    /\ UNCHANGED <<flushed, trace, exitCode>>
    /\ UNCHANGED <<args, bash_env, wslenv, interactive_shell, git_args, git_cmd,
                   cmd_args, launch, childOut, status, policy, result, hostOut,
                   unitVars>>

FlushTranslated ==
    /\ pc = "written"
    /\ \/ /\ flushed' = TRUE
          /\ pc' = "flushed"
          /\ trace' = Append(trace, "flush")
          /\ UNCHANGED exitCode
       \/ /\ Panic
          /\ UNCHANGED flushed
    /\ UNCHANGED <<args, bash_env, wslenv, interactive_shell, git_args, git_cmd,
                   cmd_args, launch, childOut, status, policy, result, hostOut,
                   unitVars>>

\* lines 155-160
WriteRawTranslated ==
    /\ pc = "waited"
    /\ ~use_translate(git_args)
    /\ policy' = "passthrough_output"
    /\ hostOut' = replace_all(childOut)
    /\ pc' = "raw_written"
    /\ trace' = Append(trace, "write")
    /\ UNCHANGED <<args, bash_env, wslenv, interactive_shell, git_args, git_cmd,
                   cmd_args, launch, childOut, status, result, flushed,
                   exitCode, unitVars>>

WriteRaw ==
    /\ pc = "waited"
    /\ ~use_translate(git_args)
    /\ policy' = "passthrough_output"
    /\ \/ /\ hostOut' = childOut
          /\ pc' = "raw_written"
          /\ trace' = Append(trace, "write")
          /\ UNCHANGED exitCode
       \/ /\ hostOut' \in StrictPrefixes(childOut)
          /\ Panic
    /\ UNCHANGED <<args, bash_env, wslenv, interactive_shell, git_args, git_cmd,
                   cmd_args, launch, childOut, status, result, flushed,
                   unitVars>>

\* line 162
FlushRaw ==
    /\ pc = "raw_written"
    /\ \/ /\ flushed' = TRUE
          /\ pc' = "flushed"
          /\ trace' = Append(trace, "flush")
          /\ UNCHANGED exitCode
       \/ /\ Panic
          /\ UNCHANGED flushed
    /\ UNCHANGED <<args, bash_env, wslenv, interactive_shell, git_args, git_cmd,
                   cmd_args, launch, childOut, status, policy, result, hostOut,
                   unitVars>>

\* lines 167-169
ExitFailureOnly ==
    /\ pc = "flushed"
    /\ status.code # None
    /\ exitCode' = Some(IF unwrap(status.code) = 0 THEN 0 ELSE 1)
    /\ pc' = "exited"
    /\ trace' = Append(trace, "exit")
    /\ UNCHANGED <<args, bash_env, wslenv, interactive_shell, git_args, git_cmd,
                   cmd_args, launch, childOut, status, policy, result, hostOut,
                   flushed, unitVars>>

Exit ==
    /\ pc = "flushed"
    /\ status.code # None
    /\ exitCode' = Some(unwrap(status.code))
    /\ pc' = "exited"
    /\ trace' = Append(trace, "exit")
    /\ UNCHANGED <<args, bash_env, wslenv, interactive_shell, git_args, git_cmd,
                   cmd_args, launch, childOut, status, policy, result, hostOut,
                   flushed, unitVars>>

\* line 170: no exit code to forward, main returns
ReturnFromMain ==
    /\ pc = "flushed"
    /\ status.code = None
    /\ exitCode' = Some(MainReturn)
    /\ pc' = "exited"
    /\ trace' = Append(trace, "exit")
    /\ UNCHANGED <<args, bash_env, wslenv, interactive_shell, git_args, git_cmd,
                   cmd_args, launch, childOut, status, policy, result, hostOut,
                   flushed, unitVars>>

Next ==
    \/ Assemble
    \/ Spawn
    \/ Wait
    \/ Translate
    \/ WriteTranslated
    \/ FlushTranslated
    \/ WriteRaw
    \/ FlushRaw
    \/ Exit
    \/ ReturnFromMain

Spec == Init /\ [][Next]_vars


(***************************************************************************)
(* The claims about a run of main                                          *)
(***************************************************************************)
IsPrefix(p, q) == Len(p) <= Len(q) /\ SubSeq(q, 1, Len(p)) = p

\* C1: when the child exited with a code, the shim exits with that code.  A
\* run that aborts in a failed spawn, wait, write or flush (pc = "panicked")
\* never reaches the exit and is the fatal-error case, not this one.
C1_ExitCodeForwarded ==
    (pc = "exited" /\ status.code # None) => exitCode = status.code

C1_Witness ==
    /\ pc = "exited"
    /\ policy = "passthrough_output"
    /\ status.code = Some(128)
    /\ exitCode = Some(128)

\* C4 as claimed: the output is translated exactly when there is a first
\* argument and it is not in NO_TRANSLATE.
C4_TranslateNeedsSubcommand ==
    policy # "undecided" =>
        (policy = "translate_output"
            <=> (Len(args) >= 1 /\ args[1] \notin NO_TRANSLATE))

\* C4 amended: the output is passed through exactly when the first argument
\* is "show"; with no argument at all, as with any other first argument, it
\* is translated.
C4_PassthroughIffShow ==
    policy # "undecided" =>
        /\ policy \in {"translate_output", "passthrough_output"}
        /\ policy = "passthrough_output"
              <=> (Len(args) >= 1 /\ args[1] = ShowLit)

\* no argument: the child's output was rewritten
C4_Witness ==
    /\ args = <<>>
    /\ policy = "translate_output"
    /\ childOut = <<"/", "m", "n", "t", "/", "c", "/", "\n">>
    /\ hostOut = <<"C", ":", "/", "\n">>

\* C5: on the pass-through path the bytes written to the host's stdout are
\* the child's, byte for byte: never anything but a prefix of them, and all
\* of them once the write has returned.
C5_PassthroughVerbatim ==
    policy = "passthrough_output" =>
        /\ IsPrefix(hostOut, childOut)
        /\ pc \in {"raw_written", "flushed", "exited"} => hostOut = childOut

C5_Witness ==
    /\ policy = "passthrough_output"
    /\ pc = "exited"
    /\ args[1] = ShowLit
    /\ childOut = <<"xFF", "\n", "/", "m", "n", "t", "/", "D", "/", "c">>
    /\ hostOut = childOut

\* w has a ':'-separated segment equal to seg, ASCII case ignored
HasSegment(w, seg) ==
    \E i \in 1..(Len(w) - Len(seg) + 1) :
        /\ i = 1 \/ w[i - 1] = ":"
        /\ i + Len(seg) - 1 = Len(w) \/ w[i + Len(seg)] = ":"
        /\ \A k \in 1..Len(seg) :
              to_ascii_lowercase(w[i + k - 1]) = to_ascii_lowercase(seg[k])

DirectModeEnv ==
    /\ bash_env # None
    /\ wslenv # None
    /\ HasSegment(unwrap(wslenv), BashEnvLit)

QuotedIfSpace(a) ==
    IF \E i \in 1..Len(a) : a[i] = " " THEN <<"\"">> \o a \o <<"\"">> ELSE a

\* "git" and the translated arguments
DirectPlan ==
    <<GitLit>> \o [i \in 1..Len(args) |-> translate_path_to_unix(args[i])]

\* "git" and each translated argument, quoted if it holds a space, joined by
\* single spaces
InteractiveLine ==
    join(<<GitLit>> \o [i \in 1..Len(args) |->
                          QuotedIfSpace(translate_path_to_unix(args[i]))],
         <<" ">>)

\* C7: wsl is handed the direct plan exactly in a direct-mode environment,
\* and bash -ic <line> in every other.
C7_LauncherArgv ==
    launch # None =>
        /\ unwrap(launch).program = "wsl"
        /\ unwrap(launch).args =
              IF DirectModeEnv THEN DirectPlan
              ELSE <<BashLit, DashIcLit, InteractiveLine>>

\* WSLENV=bash_env selects direct mode: one element per argument, unquoted
C7_Witness ==
    /\ launch # None
    /\ bash_env # None
    /\ wslenv = Some(<<"b","a","s","h","_","e","n","v">>)
    /\ args = << <<"l", "o", "g">>, <<"C", ":", "\\", "a", " ", "b">> >>
    /\ unwrap(launch).args =
          <<GitLit, <<"l", "o", "g">>,
            <<"/", "m", "n", "t", "/", "c", "/", "a", " ", "b">> >>

\* the git command line of the run
CommandLine == IF DirectModeEnv THEN join(DirectPlan, <<" ">>) ELSE InteractiveLine

\* C8: the child's stdin is the null source exactly when the git command
\* line ends with "--version", and is inherited otherwise.
C8_NullStdinIffVersion ==
    launch # None =>
        unwrap(launch).stdin =
            IF ends_with(CommandLine, VersionLit) THEN "null" ELSE "inherit"

C8_Witness ==
    /\ launch # None
    /\ args = <<VersionLit>>
    /\ unwrap(launch).stdin = "null"

\* a quoted last argument ends the line with '"': stdin is inherited
C8_QuotedWitness ==
    /\ launch # None
    /\ interactive_shell
    /\ args = << <<"a", " ">> \o VersionLit >>
    /\ unwrap(launch).stdin = "inherit"

TranslateOrder == <<"spawn", "child_exit", "translate", "write", "flush", "exit">>

\* C9: on the translate path the events come in the order spawn, child exit,
\* translate, write, flush, exit; no byte reaches the host's stdout before
\* the child has exited; the shim does not exit before the flush.
C9_TranslateOrdering ==
    /\ hostOut # <<>> => status.exited
    /\ policy # "passthrough_output" =>
          \E n \in 0..Len(TranslateOrder) :
              \/ trace = SubSeq(TranslateOrder, 1, n)
              \/ trace = Append(SubSeq(TranslateOrder, 1, n), "panic")
    /\ (policy = "translate_output" /\ pc = "exited") =>
          /\ flushed
          /\ trace = TranslateOrder
          /\ hostOut = result

C9_Witness ==
    /\ policy = "translate_output"
    /\ pc = "exited"
    /\ trace = TranslateOrder
    /\ hostOut # <<>>
    /\ flushed

====
